---- MODULE Spec2Model ----
(***************************************************************************)
(* Model of the GitHub PR server (src/main.py) and of its fetcher          *)
(* (src/git_hub_pr_fetcher.py).  One tool call runs at a time; the remote  *)
(* service answers every request with an outcome chosen                    *)
(* nondeterministically: transport error, non-success status, malformed    *)
(* body, well-formed body.  Python strings built with f-strings are        *)
(* sequences of text fragments; Python dicts are records with the same     *)
(* keys.                                                                   *)
(***************************************************************************)
EXTENDS Integers, Sequences, FiniteSets, TLC

VARIABLES
    pc,          \* "idle", "fetch" (inside fetch_pr_details), "readme" (inside the filename loop), "done"
    op,          \* the operation being executed ("none" when idle)
    pr_number,   \* the pr_number argument of get_specified_pr / fetch_pr_details
    pr_list,     \* get_specified_pr: the result of fetcher.list_pull_requests
    i,           \* loop position: 1-based index of the next strategy / filename
    last_error,  \* fetch_pr_details: last_error
    log,         \* the requests sent to the remote service during this call, in order
    ret          \* the outcome of the call: a returned value or a raised exception

vars == <<pc, op, pr_number, pr_list, i, last_error, log, ret>>

(***************************** bounds **************************************)
MaxPRs == 2          \* longest remote pull-request listing
MaxContentLen == 4   \* longest "content" field of a contents response

(************************ values and helpers *******************************)
None == <<"None">>                     \* str(None); also stands for a None value
NoDict == [none |-> TRUE]              \* pr_list before it is assigned
NoRet == [kind |-> "none"]

\* Optional[str] values
Absent == [some |-> FALSE, text |-> <<>>]
Some(t) == [some |-> TRUE, text |-> t]

Return(v) == [kind |-> "return", value |-> v]
Raise(e) == [kind |-> "raise", exc |-> e]

PRNumbers == {10 + k : k \in 1..MaxPRs}          \* PR numbers the remote may hold
PrNumberArgs == (0 - MaxPRs - 1)..(MaxPRs + 1)   \* pr_number arguments, default 0 included

\* texts of the exceptions raised by the HTTP client: str(e)
TransportErrors == {<<"SSLError">>, <<"ConnectionError">>}
StatusErrors == {<<"404 Client Error">>}
JsonError == <<"JSONDecodeError">>

\* Python sequence subscript seq[idx] with negative indices counted from the end
PyInRange(seq, idx) == idx >= 0 - Len(seq) /\ idx < Len(seq)
PyIndex(seq, idx) == IF idx >= 0 THEN seq[idx + 1] ELSE seq[Len(seq) + idx + 1]

LogEntry(req, target, num, outcome) ==
    [req |-> req, target |-> target, num |-> num, outcome |-> outcome]

(******************* remote pull-request listing ***************************)
\* An item of the remote listing: its number and the field it lacks ("" = none)
ItemMissing == {"", "user", "created_at"}
Items == [number : PRNumbers, missing : ItemMissing]

RECURSIVE DistinctSeqs(_)
DistinctSeqs(n) ==
    IF n = 0 THEN {<<>>}
    ELSE LET shorter == DistinctSeqs(n - 1)
         IN shorter \cup
            {Append(s, it) : s \in {t \in shorter : Len(t) = n - 1}, it \in Items}

ListBodies ==
    {s \in DistinctSeqs(MaxPRs) :
        \A a, b \in 1..Len(s) : a # b => s[a].number # s[b].number}

\* what the remote answers to a listing request
ListResponses ==
    {[kind |-> "error", text |-> e] : e \in TransportErrors}
    \cup {[kind |-> "status", text |-> e] : e \in StatusErrors}
    \cup {[kind |-> "bad_json", text |-> JsonError]}
    \cup {[kind |-> "ok", body |-> b] : b \in ListBodies}

FieldValue(pr, f) == <<f, pr.number>>

\* pr[...] subscripts of the fetcher's comprehension; KeyError on the first absent key
FetcherFields == <<"number", "title", "state", "user", "html_url", "created_at", "updated_at">>
MainFields == <<"number", "title", "state", "user", "html_url">>

HasFields(pr, fields) == \A k \in 1..Len(fields) : pr.missing # fields[k]
KeyErrorText(pr) == <<"'", pr.missing, "'">>

FetcherSummary(pr) ==
    [number |-> pr.number,
     title |-> FieldValue(pr, "title"),
     state |-> FieldValue(pr, "state"),
     author |-> FieldValue(pr, "login"),
     url |-> FieldValue(pr, "html_url"),
     created_at |-> FieldValue(pr, "created_at"),
     updated_at |-> FieldValue(pr, "updated_at")]

\* GitHubPRFetcher.list_pull_requests: the dict it returns for a remote answer
FetcherListFailure(e) ==
    [success |-> FALSE, error |-> <<"Failed to list pull requests: ">> \o e, data |-> None]

FetcherListResult(resp) ==
    IF resp.kind # "ok" THEN FetcherListFailure(resp.text)
    ELSE IF \E k \in 1..Len(resp.body) : ~HasFields(resp.body[k], FetcherFields)
         THEN LET k == CHOOSE k \in 1..Len(resp.body) :
                            /\ ~HasFields(resp.body[k], FetcherFields)
                            /\ \A j \in 1..(k - 1) : HasFields(resp.body[j], FetcherFields)
              IN FetcherListFailure(KeyErrorText(resp.body[k]))
         ELSE [success |-> TRUE,
               data |-> [k \in 1..Len(resp.body) |-> FetcherSummary(resp.body[k])]]

(************************ fetch strategies *********************************)
\* what can happen inside one strategy call
StrategyOutcomes(name) ==
    {[kind |-> "ok"]}
    \cup {[kind |-> "error", text |-> e] : e \in TransportErrors \cup StatusErrors}
    \cup {[kind |-> "raise", text |-> <<"MemoryError">>]}
    \cup (IF name = "system_ca_bundle" THEN {[kind |-> "import_error"]} ELSE {})

Payload(num) == [number |-> num, detail |-> "pull request"]   \* response.json()

StrategySuccess(num, method) == [success |-> TRUE, data |-> Payload(num), method |-> method]
StrategyFailure(text) == [success |-> FALSE, error |-> text]

fetch_with_default_ssl(num, out) ==
    IF out.kind = "ok" THEN StrategySuccess(num, "default_ssl")
    ELSE StrategyFailure(<<"Default SSL failed: ">> \o out.text)

fetch_with_disabled_ssl_verification(num, out) ==
    IF out.kind = "ok" THEN StrategySuccess(num, "disabled_ssl_verification")
    ELSE StrategyFailure(<<"Disabled SSL verification failed: ">> \o out.text)

fetch_with_custom_ssl_context(num, out) ==
    IF out.kind = "ok" THEN StrategySuccess(num, "custom_ssl_context")
    ELSE StrategyFailure(<<"Custom SSL context failed: ">> \o out.text)

fetch_with_system_ca_bundle(num, out) ==
    IF out.kind = "ok" THEN StrategySuccess(num, "system_ca_bundle")
    ELSE IF out.kind = "import_error" THEN StrategyFailure(<<"certifi package not available">>)
    ELSE StrategyFailure(<<"System CA bundle failed: ">> \o out.text)

\* variant: the verifying strategies first
strategiesSecureFirst ==
    <<"default_ssl", "system_ca_bundle", "disabled_ssl_verification", "custom_ssl_context">>

\* the strategies list of fetch_pr_details, by method name
strategies ==
    <<"default_ssl", "disabled_ssl_verification", "custom_ssl_context", "system_ca_bundle">>

\* whether the strategy's request validates the server certificate
VerifiesCertificate(name) ==
    CASE name = "default_ssl" -> TRUE
      [] name = "disabled_ssl_verification" -> FALSE
      [] name = "custom_ssl_context" -> FALSE
      [] name = "system_ca_bundle" -> TRUE

CallStrategy(name, num, out) ==
    CASE name = "default_ssl" -> fetch_with_default_ssl(num, out)
      [] name = "disabled_ssl_verification" -> fetch_with_disabled_ssl_verification(num, out)
      [] name = "custom_ssl_context" -> fetch_with_custom_ssl_context(num, out)
      [] name = "system_ca_bundle" -> fetch_with_system_ca_bundle(num, out)

\* variant: the first error is kept instead of the last
RecordErrorKeepFirst(prev, name, num, out) ==
    IF prev # None THEN prev
    ELSE IF out.kind = "raise" THEN out.text
    ELSE CallStrategy(name, num, out).error

\* last_error after a strategy that did not succeed
RecordError(prev, name, num, out) ==
    IF out.kind = "raise" THEN out.text
    ELSE CallStrategy(name, num, out).error

AllFailedResult(err) ==
    [success |-> FALSE,
     error |-> <<"All SSL strategies failed. Last error: ">> \o err,
     data |-> None]

(************************ get_specified_pr *********************************)
\* variant: the argument used as a 0-based subscript
SelectedIndexOffByOne(n) == n

\* the subscript of pr_list['data'] used for the pr_number argument
SelectedIndex(n) == n - 1

\* what get_specified_pr returns for the coordinator's result
SpecifiedPrResult(pr_details, listing) ==
    IF pr_details.success
    THEN [success |-> TRUE,
          latest_pr |-> pr_details.data,
          method_used |-> pr_details.method,
          all_prs |-> listing.data]
    ELSE pr_details

\* the value handed back by fetch_pr_details reaches the caller of the operation
Deliver(pr_details) ==
    IF op = "get_specified_pr" THEN Return(SpecifiedPrResult(pr_details, pr_list))
    ELSE Return(pr_details)


(********************* main.list_pull_requests *****************************)
\* what httpx answers to the listing request of main.list_pull_requests
MainSummary(pr) ==
    [number |-> pr.number,
     title |-> FieldValue(pr, "title"),
     state |-> FieldValue(pr, "state"),
     author |-> FieldValue(pr, "login"),
     url |-> FieldValue(pr, "html_url")]

\* variant: an item lacking a key is skipped instead of failing the call
RECURSIVE MainProjectSkipIncomplete(_, _, _)
MainProjectSkipIncomplete(prs, k, result) ==
    IF k > Len(prs) THEN [ok |-> TRUE, result |-> result]
    ELSE IF ~HasFields(prs[k], MainFields)
         THEN MainProjectSkipIncomplete(prs, k + 1, result)
         ELSE MainProjectSkipIncomplete(prs, k + 1, Append(result, MainSummary(prs[k])))

\* the loop of main.list_pull_requests: result after appending every item,
\* or the KeyError of the first item that lacks a key
RECURSIVE MainProject(_, _, _)
MainProject(prs, k, result) ==
    IF k > Len(prs) THEN [ok |-> TRUE, result |-> result]
    ELSE IF ~HasFields(prs[k], MainFields)
         THEN [ok |-> FALSE, text |-> KeyErrorText(prs[k])]
         ELSE MainProject(prs, k + 1, Append(result, MainSummary(prs[k])))

\* json.dumps of a text value and of one summary dict, as text fragments
JsonText(v) == <<"\"", v[1], ToString(v[2]), "\"">>

JsonObject(d) ==
    <<"{", "\"number\": ", ToString(d.number), ",">>
    \o <<"\"title\": ">> \o JsonText(d.title) \o <<",">>
    \o <<"\"state\": ">> \o JsonText(d.state) \o <<",">>
    \o <<"\"author\": ">> \o JsonText(d.author) \o <<",">>
    \o <<"\"url\": ">> \o JsonText(d.url) \o <<"}">>

RECURSIVE JsonItems(_, _)
JsonItems(list, k) ==
    IF k > Len(list) THEN <<>>
    ELSE (IF k > 1 THEN <<",">> ELSE <<>>) \o JsonObject(list[k]) \o JsonItems(list, k + 1)

\* json.dumps(result, indent=2)
JsonDumps(list) == <<"[">> \o JsonItems(list, 1) \o <<"]">>

MainListResult(resp) ==
    IF resp.kind # "ok" THEN <<"Error: ">> \o resp.text
    ELSE LET p == MainProject(resp.body, 1, <<>>)
         IN IF p.ok THEN JsonDumps(p.result) ELSE <<"Error: ">> \o p.text

(********************* get_repository_issues *******************************)
PerPageArgs == {30, 100, 150}
IssueStates == {"open", "all"}
PerPageParam(per_page) == IF per_page < 100 THEN per_page ELSE 100    \* min(per_page, 100)

IssueBodies == {<<>>, <<[number |-> 1, title |-> "issue"]>>}

IssuesResponses ==
    {[kind |-> "error", text |-> e] : e \in TransportErrors}
    \cup {[kind |-> "status", text |-> e] : e \in StatusErrors}
    \cup {[kind |-> "bad_json", text |-> JsonError]}
    \cup {[kind |-> "ok", body |-> b] : b \in IssueBodies}

\* response.json() of a body that is not JSON raises requests' JSONDecodeError, a
\* RequestException from requests 2.27 on and a plain ValueError before: both outcomes
IssuesResults(resp) ==
    CASE resp.kind = "ok" -> {Return(resp.body)}
      [] resp.kind = "bad_json" ->
            {Return([error |-> <<"Failed to fetch issues: ">> \o resp.text]),
             Raise("ValueError")}
      [] OTHER -> {Return([error |-> <<"Failed to fetch issues: ">> \o resp.text])}

(********************* get_repository_readme *******************************)
filenames == <<"README.md", "README.rst", "README.txt", "README">>

ReadmeOutcomes(name) ==
    {[kind |-> "error", text |-> e] : e \in TransportErrors}
    \cup {[kind |-> "status", code |-> c, text |-> <<"error page">>] : c \in {404, 500}}
    \cup {[kind |-> "status", code |-> 200, text |-> <<"content of ", name>>]}

\* variant: any answered request returns its text, whatever the status
ReadmeReturnsAnyStatus(out) == out.kind = "status"

\* whether the loop body returns response.text for this outcome
ReadmeReturns(out) == out.kind = "status" /\ out.code = 200

(********************* get_repository_file *********************************)
\* characters of a "content" field: some of the base64 alphabet, the pad, a line break
B64Table == [c \in {"Q", "w", "6", "k", "/"} |->
                CASE c = "Q" -> 16 [] c = "w" -> 48 [] c = "6" -> 58
                  [] c = "k" -> 36 [] c = "/" -> 63]
ContentChars == DOMAIN B64Table \cup {"=", "\n"}

RECURSIVE CharSeqs(_)
CharSeqs(n) ==
    IF n = 0 THEN {<<>>}
    ELSE LET shorter == CharSeqs(n - 1)
         IN shorter \cup
            {Append(s, c) : s \in {t \in shorter : Len(t) = n - 1}, c \in ContentChars}

Contents == CharSeqs(MaxContentLen)

\* base64.b64decode(s) (validate=False): characters outside the alphabet are skipped,
\* a complete pad sequence ends the input, leftover characters are a padding error
RECURSIVE a2b_base64(_, _, _, _, _, _)
a2b_base64(s, pos, quad_pos, leftchar, pads, bin) ==
    IF pos > Len(s)
    THEN IF quad_pos # 0 THEN [ok |-> FALSE, bytes |-> <<>>] ELSE [ok |-> TRUE, bytes |-> bin]
    ELSE LET c == s[pos]
         IN IF c = "="
            THEN IF quad_pos >= 2 /\ quad_pos + pads + 1 >= 4
                 THEN [ok |-> TRUE, bytes |-> bin]
                 ELSE a2b_base64(s, pos + 1, quad_pos, leftchar,
                                 IF quad_pos >= 2 THEN pads + 1 ELSE pads, bin)
            ELSE IF c \notin DOMAIN B64Table
            THEN a2b_base64(s, pos + 1, quad_pos, leftchar, pads, bin)
            ELSE LET v == B64Table[c]
                 IN CASE quad_pos = 0 -> a2b_base64(s, pos + 1, 1, v, 0, bin)
                      [] quad_pos = 1 ->
                            a2b_base64(s, pos + 1, 2, v % 16, 0,
                                       Append(bin, (leftchar * 4 + (v \div 16)) % 256))
                      [] quad_pos = 2 ->
                            a2b_base64(s, pos + 1, 3, v % 4, 0,
                                       Append(bin, (leftchar * 16 + (v \div 4)) % 256))
                      [] quad_pos = 3 ->
                            a2b_base64(s, pos + 1, 0, 0, 0,
                                       Append(bin, (leftchar * 64 + v) % 256))

b64decode(s) == a2b_base64(s, 1, 0, 0, 0, <<>>)

\* bytes.decode('utf-8'): the code points, or a UnicodeDecodeError
IsCont(b, lo, hi) == b >= lo /\ b <= hi

RECURSIVE utf8_decode(_, _, _)
utf8_decode(b, pos, text) ==
    IF pos > Len(b) THEN [ok |-> TRUE, text |-> text]
    ELSE LET b0 == b[pos]
             need == CASE b0 < 128 -> 1
                       [] b0 >= 194 /\ b0 <= 223 -> 2
                       [] b0 >= 224 /\ b0 <= 239 -> 3
                       [] b0 >= 240 /\ b0 <= 244 -> 4
                       [] OTHER -> 0
             lo1 == CASE b0 = 224 -> 160 [] b0 = 240 -> 144 [] OTHER -> 128
             hi1 == CASE b0 = 237 -> 159 [] b0 = 244 -> 143 [] OTHER -> 191
             bad == [ok |-> FALSE, text |-> <<>>]
         IN IF need = 0 \/ pos + need - 1 > Len(b) THEN bad
            ELSE IF need = 1 THEN utf8_decode(b, pos + 1, Append(text, b0))
            ELSE IF ~IsCont(b[pos + 1], lo1, hi1) THEN bad
            ELSE IF need = 2
                 THEN utf8_decode(b, pos + 2, Append(text, (b0 - 192) * 64 + (b[pos + 1] - 128)))
            ELSE IF ~IsCont(b[pos + 2], 128, 191) THEN bad
            ELSE IF need = 3
                 THEN utf8_decode(b, pos + 3,
                        Append(text, (b0 - 224) * 4096 + (b[pos + 1] - 128) * 64 + (b[pos + 2] - 128)))
            ELSE IF ~IsCont(b[pos + 3], 128, 191) THEN bad
            ELSE utf8_decode(b, pos + 4,
                        Append(text, (b0 - 240) * 262144 + (b[pos + 1] - 128) * 4096
                                     + (b[pos + 2] - 128) * 64 + (b[pos + 3] - 128)))

\* what the remote answers to the contents request
FileData ==
    {[shape |-> "list"]}
    \cup {[shape |-> "dict", encoding |-> "base64", has_content |-> FALSE]}
    \cup {[shape |-> "dict", encoding |-> e, has_content |-> TRUE, content |-> c] :
            e \in {"none", "absent"}, c \in {<<>>, <<"Q", "Q", "=", "=">>}}
    \cup {[shape |-> "dict", encoding |-> "base64", has_content |-> TRUE, content |-> c] :
            c \in Contents}

FileResponses ==
    {[kind |-> "error", text |-> e] : e \in TransportErrors}
    \cup {[kind |-> "status", code |-> c] : c \in {404, 403}}
    \cup {[kind |-> "bad_json", code |-> 200]}
    \cup {[kind |-> "ok", code |-> 200, data |-> d] : d \in FileData}

\* variant: the content is decoded whatever the reported encoding
FileResultNoEncodingCheck(resp) ==
    IF resp.kind # "ok" THEN Return(Absent)
    ELSE IF resp.data.shape # "dict" THEN Return(Absent)
    ELSE IF ~resp.data.has_content THEN Return(Absent)
    ELSE LET raw == b64decode(resp.data.content)
         IN IF ~raw.ok THEN Return(Absent)
            ELSE LET txt == utf8_decode(raw.bytes, 1, <<>>)
                 IN IF ~txt.ok THEN Return(Absent)
                    ELSE Return(Some(txt.text))

\* the value get_repository_file returns: a text or None
FileResult(resp) ==
    IF resp.kind # "ok" THEN Return(Absent)                  \* exception or status_code != 200
    ELSE IF resp.data.shape # "dict" THEN Return(Absent)     \* data.get fails: AttributeError
    ELSE IF resp.data.encoding # "base64" THEN Return(Absent)
    ELSE IF ~resp.data.has_content THEN Return(Absent)       \* KeyError
    ELSE LET raw == b64decode(resp.data.content)
         IN IF ~raw.ok THEN Return(Absent)                   \* binascii.Error
            ELSE LET txt == utf8_decode(raw.bytes, 1, <<>>)
                 IN IF ~txt.ok THEN Return(Absent)           \* UnicodeDecodeError
                    ELSE Return(Some(txt.text))

(***************************** actions *************************************)
Init ==
    /\ pc = "idle"
    /\ op = "none"
    /\ pr_number = 0
    /\ pr_list = NoDict
    /\ i = 0
    /\ last_error = None
    /\ log = <<>>
    /\ ret = NoRet

\* GitHubPRFetcher.list_pull_requests called on its own
FetcherListPullRequests ==
    /\ pc = "idle"
    /\ \E resp \in ListResponses :
        /\ log' = <<LogEntry("pulls", "verify=False", 0, resp)>>
        /\ ret' = Return(FetcherListResult(resp))
    /\ op' = "fetcher.list_pull_requests"
    /\ pc' = "done"
    /\ UNCHANGED <<pr_number, pr_list, i, last_error>>

\* GitHubPRFetcher.fetch_pr_details called on its own: up to the loop
FetchPrDetails ==
    /\ pc = "idle"
    /\ \E num \in PRNumbers : pr_number' = num
    /\ op' = "fetch_pr_details"
    /\ pc' = "fetch"
    /\ i' = 1
    /\ last_error' = None
    /\ UNCHANGED <<pr_list, log, ret>>

\* get_specified_pr up to the call of fetch_pr_details
GetSpecifiedPr ==
    /\ pc = "idle"
    /\ op' = "get_specified_pr"
    /\ \E n \in PrNumberArgs, resp \in ListResponses :
        LET listing == FetcherListResult(resp)
            idx == SelectedIndex(n)
        IN /\ pr_number' = n
           /\ pr_list' = listing
           /\ log' = <<LogEntry("pulls", "verify=False", 0, resp)>>
           /\ IF ~listing.success \/ listing.data = <<>>
              THEN /\ ret' = Return(listing)
                   /\ pc' = "done"
                   /\ UNCHANGED <<i, last_error>>
              ELSE IF ~PyInRange(listing.data, idx)
              THEN /\ ret' = Raise("IndexError")
                   /\ pc' = "done"
                   /\ UNCHANGED <<i, last_error>>
              ELSE /\ ret' = NoRet
                   /\ pc' = "fetch"
                   /\ i' = 1
                   /\ last_error' = None

\* the pull-request number fetch_pr_details was called with
DetailNumber ==
    IF op = "get_specified_pr"
    THEN PyIndex(pr_list.data, SelectedIndex(pr_number)).number
    ELSE pr_number

\* variant: an exception escaping a strategy ends the pass
TryStrategyAbortOnRaise ==
    /\ pc = "fetch"
    /\ i <= Len(strategies)
    /\ \E out \in StrategyOutcomes(strategies[i]) :
        LET name == strategies[i]
            num == DetailNumber
        IN /\ log' = Append(log, LogEntry("strategy", name, num, out))
           /\ IF out.kind = "raise"
              THEN /\ ret' = Deliver(AllFailedResult(out.text))
                   /\ pc' = "done"
                   /\ UNCHANGED <<i, last_error>>
              ELSE IF CallStrategy(name, num, out).success
              THEN /\ ret' = Deliver(CallStrategy(name, num, out))
                   /\ pc' = "done"
                   /\ UNCHANGED <<i, last_error>>
              ELSE /\ last_error' = RecordError(last_error, name, num, out)
                   /\ i' = i + 1
                   /\ UNCHANGED <<pc, ret>>
    /\ UNCHANGED <<op, pr_number, pr_list>>

\* one iteration of the strategy loop of fetch_pr_details
TryStrategy ==
    /\ pc = "fetch"
    /\ i <= Len(strategies)
    /\ \E out \in StrategyOutcomes(strategies[i]) :
        LET name == strategies[i]
            num == DetailNumber
        IN /\ log' = Append(log, LogEntry("strategy", name, num, out))
           /\ IF out.kind # "raise" /\ CallStrategy(name, num, out).success
              THEN /\ ret' = Deliver(CallStrategy(name, num, out))
                   /\ pc' = "done"
                   /\ UNCHANGED <<i, last_error>>
              ELSE /\ last_error' = RecordError(last_error, name, num, out)
                   /\ i' = i + 1
                   /\ UNCHANGED <<pc, ret>>
    /\ UNCHANGED <<op, pr_number, pr_list>>

\* the loop of fetch_pr_details ran out of strategies
StrategiesExhausted ==
    /\ pc = "fetch"
    /\ i > Len(strategies)
    /\ ret' = Deliver(AllFailedResult(last_error))
    /\ pc' = "done"
    /\ UNCHANGED <<op, pr_number, pr_list, i, last_error, log>>

\* main.list_pull_requests
ListPullRequests ==
    /\ pc = "idle"
    /\ \E resp \in ListResponses :
        /\ log' = <<LogEntry("pulls", "httpx", 0, resp)>>
        /\ ret' = Return(MainListResult(resp))
    /\ op' = "list_pull_requests"
    /\ pc' = "done"
    /\ UNCHANGED <<pr_number, pr_list, i, last_error>>

\* get_repository_issues
GetRepositoryIssues ==
    /\ pc = "idle"
    /\ \E state \in IssueStates, per_page \in PerPageArgs, resp \in IssuesResponses :
        /\ log' = <<LogEntry("issues", state, PerPageParam(per_page), resp)>>
        /\ ret' \in IssuesResults(resp)
    /\ op' = "get_repository_issues"
    /\ pc' = "done"
    /\ UNCHANGED <<pr_number, pr_list, i, last_error>>

\* get_repository_readme up to the loop
GetRepositoryReadme ==
    /\ pc = "idle"
    /\ op' = "get_repository_readme"
    /\ pc' = "readme"
    /\ i' = 1
    /\ UNCHANGED <<pr_number, pr_list, last_error, log, ret>>

\* one iteration of the filename loop of get_repository_readme
TryFilename ==
    /\ pc = "readme"
    /\ i <= Len(filenames)
    /\ \E out \in ReadmeOutcomes(filenames[i]) :
        /\ log' = Append(log, LogEntry("readme", filenames[i], 0, out))
        /\ IF ReadmeReturns(out)
           THEN /\ ret' = Return(Some(out.text))
                /\ pc' = "done"
                /\ UNCHANGED i
           ELSE /\ i' = i + 1
                /\ UNCHANGED <<pc, ret>>
    /\ UNCHANGED <<op, pr_number, pr_list, last_error>>

\* the filename loop ended without a return: the function returns None
FilenamesExhausted ==
    /\ pc = "readme"
    /\ i > Len(filenames)
    /\ ret' = Return(Absent)
    /\ pc' = "done"
    /\ UNCHANGED <<op, pr_number, pr_list, i, last_error, log>>

\* get_repository_file
GetRepositoryFile ==
    /\ pc = "idle"
    /\ \E resp \in FileResponses :
        /\ log' = <<LogEntry("contents", "ref=branch", 0, resp)>>
        /\ ret' = FileResult(resp)
    /\ op' = "get_repository_file"
    /\ pc' = "done"
    /\ UNCHANGED <<pr_number, pr_list, i, last_error>>

\* the call is over; the next call starts from scratch (nothing is kept between calls)
Finish ==
    /\ pc = "done"
    /\ pc' = "idle"
    /\ op' = "none"
    /\ pr_number' = 0
    /\ pr_list' = NoDict
    /\ i' = 0
    /\ last_error' = None
    /\ log' = <<>>
    /\ ret' = NoRet

Next ==
    \/ FetcherListPullRequests
    \/ FetchPrDetails
    \/ GetSpecifiedPr
    \/ TryStrategy
    \/ StrategiesExhausted
    \/ ListPullRequests
    \/ GetRepositoryIssues
    \/ GetRepositoryReadme
    \/ TryFilename
    \/ FilenamesExhausted
    \/ GetRepositoryFile
    \/ Finish

Spec == Init /\ [][Next]_vars

(***************************** properties **********************************)
\* the strategy requests of the current call, in the order they were sent
StrategyLog == SelectSeq(log, LAMBDA e : e.req = "strategy")
Failed(e) == e.outcome.kind # "ok"
CoordinatorOps == {"fetch_pr_details", "get_specified_pr"}
\* the dict fetch_pr_details handed back, seen from the finished call
CoordinatorFailed == ret.kind = "return" /\ ~ret.value.success

\* C1: every operation returns a value and never raises, whatever the remote
\* answers and whatever the index argument is.
C1_NeverRaises == pc = "done" => ret.kind = "return"

\* C2: the coordinator invokes the strategies strictly in list order, each at most
\* once, stops at the first success and returns that strategy's result under its
\* method name; a strategy that fails (returned or raised) never ends the pass.
C2_FirstSuccessWins ==
    LET S == StrategyLog
        order == <<"default_ssl", "disabled_ssl_verification",
                   "custom_ssl_context", "system_ca_bundle">>
        n == Len(S)
    IN /\ n <= 4
       /\ \A k \in 1..n : S[k].target = order[k]
       /\ \A k \in 1..(n - 1) : Failed(S[k])
       /\ pc = "fetch" => /\ \A k \in 1..n : Failed(S[k])
                          /\ i = n + 1
       /\ (pc = "done" /\ op \in CoordinatorOps /\ n > 0) =>
            /\ Failed(S[n]) => n = 4
            /\ ~Failed(S[n]) =>
                 /\ ret.kind = "return"
                 /\ ret.value.success
                 /\ IF op = "fetch_pr_details"
                    THEN /\ ret.value.method = order[n]
                         /\ ret.value.data = [number |-> S[n].num, detail |-> "pull request"]
                    ELSE /\ ret.value.method_used = order[n]
                         /\ ret.value.latest_pr = [number |-> S[n].num, detail |-> "pull request"]
       /\ (pc = "done" /\ op = "fetch_pr_details") => n > 0

C2_Witness ==
    /\ pc = "done"
    /\ op = "fetch_pr_details"
    /\ Len(StrategyLog) = 3
    /\ StrategyLog[1].outcome.kind = "error"
    /\ StrategyLog[2].outcome.kind = "raise"
    /\ StrategyLog[3].outcome.kind = "ok"
    /\ ret.value.method = "custom_ssl_context"

\* C3 as stated: a strategy that disables certificate verification is attempted only
\* after every verifying strategy (default_ssl, system_ca_bundle) was attempted and failed.
C3_InsecureLast ==
    LET S == StrategyLog
    IN \A k \in 1..Len(S) :
         ~VerifiesCertificate(S[k].target) =>
            \A name \in {"default_ssl", "system_ca_bundle"} :
               \E j \in 1..(k - 1) : S[j].target = name /\ Failed(S[j])

\* C3 amended: a verification-disabling strategy is attempted only after default_ssl
\* was attempted and failed, and system_ca_bundle (which verifies) only after both
\* verification-disabling strategies were attempted and failed.
C3_DefaultFirstBundleLast ==
    LET S == StrategyLog
    IN /\ \A k \in 1..Len(S) :
            ~VerifiesCertificate(S[k].target) =>
               \E j \in 1..(k - 1) : S[j].target = "default_ssl" /\ Failed(S[j])
       /\ \A k \in 1..Len(S) :
            S[k].target = "system_ca_bundle" =>
               \A name \in {"disabled_ssl_verification", "custom_ssl_context"} :
                  \E j \in 1..(k - 1) : S[j].target = name /\ Failed(S[j])

C3_Witness ==
    /\ Len(StrategyLog) = 4
    /\ StrategyLog[4].target = "system_ca_bundle"
    /\ ~Failed(StrategyLog[4])

\* C4: the coordinator returns a failure exactly when all four strategies were
\* attempted and failed; its message is the exhaustion marker followed by the error
\* text of the fourth strategy, it carries no payload, and no earlier strategy's
\* error appears in it.
C4_LastErrorOnly ==
    LET S == StrategyLog
        n == Len(S)
        text4 == CASE S[4].outcome.kind = "raise" -> S[4].outcome.text
                   [] S[4].outcome.kind = "import_error" -> <<"certifi package not available">>
                   [] OTHER -> <<"System CA bundle failed: ">> \o S[4].outcome.text
        earlier == {"Default SSL failed: ", "Disabled SSL verification failed: ",
                    "Custom SSL context failed: "}
    IN (pc = "done" /\ op \in CoordinatorOps /\ n > 0) =>
         /\ ret.kind = "return"
         /\ ~ret.value.success <=> (n = 4 /\ \A k \in 1..4 : Failed(S[k]))
         /\ ~ret.value.success =>
              /\ ret.value.error = <<"All SSL strategies failed. Last error: ">> \o text4
              /\ ret.value.data = None
              /\ \A k \in 1..Len(ret.value.error) : ret.value.error[k] \notin earlier

C4_Witness ==
    /\ pc = "done"
    /\ op = "fetch_pr_details"
    /\ CoordinatorFailed
    /\ Len(StrategyLog) = 4
    /\ StrategyLog[1].outcome.kind = "error"
    /\ StrategyLog[4].outcome.kind = "error"
    /\ StrategyLog[1].outcome.text # StrategyLog[4].outcome.text

\* C5 as stated: in get_specified_pr, when the listing has n >= 1 entries and
\* pr_number is outside 1..n, the lookup fails with an index error, no entry is
\* selected and the coordinator is never invoked.
C5_OutOfRangeFails ==
    (/\ op = "get_specified_pr"
     /\ pr_list.success
     /\ Len(pr_list.data) >= 1
     /\ pr_number \notin 1..Len(pr_list.data)) =>
        /\ pc = "done"
        /\ ret = Raise("IndexError")
        /\ StrategyLog = <<>>

\* C6 as stated: in get_specified_pr, when the listing fails or is empty, the result
\* has success false and an error message, and the coordinator is not invoked.
C6_ListingFailureReturned ==
    (/\ op = "get_specified_pr"
     /\ pc = "done"
     /\ (~pr_list.success \/ pr_list.data = <<>>)) =>
        /\ ret.kind = "return"
        /\ ~ret.value.success
        /\ "error" \in DOMAIN ret.value
        /\ StrategyLog = <<>>

C8_FirstReadmeWins ==
    op = "get_repository_readme" =>
        LET order == <<"README.md", "README.rst", "README.txt", "README">>
            n == Len(log)
            Hit(e) == e.outcome.kind = "status" /\ e.outcome.code = 200
        IN /\ n <= 4
           /\ \A k \in 1..n : log[k].req = "readme" /\ log[k].target = order[k]
           /\ \A k \in 1..(n - 1) : ~Hit(log[k])
           /\ pc = "readme" => \A k \in 1..n : ~Hit(log[k])
           /\ pc = "done" =>
                /\ ret.kind = "return"
                /\ n >= 1
                /\ ~ret.value.some <=> (n = 4 /\ \A k \in 1..4 : ~Hit(log[k]))
                /\ ret.value.some => Hit(log[n]) /\ ret.value.text = log[n].outcome.text

C8_Witness ==
    /\ op = "get_repository_readme"
    /\ pc = "done"
    /\ Len(log) = 3
    /\ log[1].outcome.kind = "error"
    /\ log[2].outcome.kind = "status"
    /\ log[2].outcome.code = 404
    /\ ret.value = Some(<<"content of ", "README.txt">>)

\* UTF-8 encoding of a text (sequence of code points), the inverse of bytes.decode
RECURSIVE Utf8Bytes(_)
Utf8Bytes(t) ==
    IF t = <<>> THEN <<>>
    ELSE LET c == Head(t)
             enc == IF c < 128 THEN <<c>>
                    ELSE IF c < 2048 THEN <<192 + (c \div 64), 128 + (c % 64)>>
                    ELSE IF c < 65536
                         THEN <<224 + (c \div 4096), 128 + ((c \div 64) % 64), 128 + (c % 64)>>
                    ELSE <<240 + (c \div 262144), 128 + ((c \div 4096) % 64),
                           128 + ((c \div 64) % 64), 128 + (c % 64)>>
         IN enc \o Utf8Bytes(Tail(t))

\* C9: get_repository_file makes one request and never raises; it returns None for
\* a transport error, a non-200 status, an encoding other than base64 (or none) and
\* a content that does not decode; it returns a text only for status 200 with base64
\* encoding, and the UTF-8 bytes of that text are the base64-decoded content.
C9_FileDecoded ==
    (op = "get_repository_file" /\ pc = "done") =>
        LET resp == log[1].outcome
            IsBase64 == /\ resp.kind = "ok"
                        /\ resp.data.shape = "dict"
                        /\ resp.data.encoding = "base64"
                        /\ resp.data.has_content
            Is(c) == IsBase64 /\ resp.data.content = c
        IN /\ Len(log) = 1
           /\ log[1].req = "contents"
           /\ ret.kind = "return"
           /\ ~IsBase64 => ~ret.value.some
           /\ ret.value.some =>
                /\ b64decode(resp.data.content).ok
                /\ Utf8Bytes(ret.value.text) = b64decode(resp.data.content).bytes
                /\ \A k \in 1..Len(ret.value.text) : ret.value.text[k] < 1114112
           /\ (IsBase64 /\ ~ret.value.some) =>
                \/ ~b64decode(resp.data.content).ok
                \/ \E k \in 1..Len(b64decode(resp.data.content).bytes) :
                      b64decode(resp.data.content).bytes[k] >= 128
           /\ Is(<<"Q", "Q", "=", "=">>) => ret.value = Some(<<65>>)
           /\ Is(<<"Q", "\n", "Q", "=">>) => ~ret.value.some
           /\ Is(<<"w", "6", "k", "=">>) => ret.value = Some(<<233>>)
           /\ Is(<<"/", "/", "/", "/">>) => ~ret.value.some
           /\ Is(<<"Q", "Q", "=">>) => ~ret.value.some
           /\ Is(<<"Q">>) => ~ret.value.some
           /\ Is(<<>>) => ret.value = Some(<<>>)

C9_Witness ==
    /\ op = "get_repository_file"
    /\ pc = "done"
    /\ log[1].outcome.kind = "ok"
    /\ log[1].outcome.data.shape = "dict"
    /\ log[1].outcome.data.encoding = "base64"
    /\ ret.value = Some(<<233>>)

TypeOK ==
    /\ pc \in {"idle", "fetch", "readme", "done"}
    /\ i \in 0..5
====
